---- MODULE Spec2Model ----
(***************************************************************************)
(* Facial-recognition attendance server (Flask): the capture-command slot  *)
(* polled by the ESP32-CAM, the capture-result hand-off, the recognition   *)
(* workflow (attendance / register / logout), duplicate suppression in the *)
(* SQLite store and the guardian notification hand-off.                    *)
(*                                                                         *)
(* Conventions.  A Python value that may be None is a tuple: None is <<>>  *)
(* and a present value v is <<v>>.  A Python str on which the code works   *)
(* character by character (names, guardian fields) is a sequence of        *)
(* one-character strings, "" being <<>>.  Time is in whole seconds; a      *)
(* face distance and a confidence are in hundredths.                       *)
(* A message formatted from a value is written as its template             *)
(* ("Successfully registered <name>"), the text of a caught exception as   *)
(* "exception".  A call that raises (a failure of the store or of the      *)
(* file system) is an input of the handler, its fault.  A handler is one   *)
(* atomic step, except in the section on concurrent requests, where        *)
(* poll_command and the attendance branch of recognize are split at the    *)
(* points between which the threaded server may run another request.       *)
(***************************************************************************)
EXTENDS Integers, Sequences, FiniteSets, TLC

VARIABLES
    now,              \* time.time(): the UTC wall clock, in seconds
    tz_offset,        \* the server's local time is now + tz_offset (datetime.now())
    email_enabled,    \* email_service.EMAIL_ENABLED
    capture_command,  \* app.py global capture_command (command slot + result slot)
    known_faces_dir,  \* the image files of the known_faces/ directory
    known_faces,      \* app.py globals known_encodings / known_names (parallel lists)
    students,         \* rows of the students table
    attendance_logs,  \* rows of the attendance_logs table, in insertion order
    email_threads,    \* daemon threads started by send_email_async and still running
    response,         \* the last HTTP response sent: endpoint, status code, JSON body
    issues,           \* history: the successful POST /api/command/capture requests made
                      \* in a row with no request but GET /api/command/poll among them
    requests          \* the request threads of the threaded server (app.run threaded=True)
                      \* that are between two steps of their handler

store == <<known_faces_dir, known_faces, students, attendance_logs, email_threads>>
config == <<tz_offset, email_enabled>>
vars == <<now, tz_offset, email_enabled, capture_command, known_faces_dir, known_faces,
          students, attendance_logs, email_threads, response, issues, requests>>

----------------------------------------------------------------------------
(* Bounds of the model *)

StartTime == 3600   \* clock value when the server starts
TickStep == 10      \* granularity of the clock
Horizon == 60       \* the clock runs from StartTime to StartTime + Horizon

MaxRecords == 2     \* attendance rows the store may hold
MaxIssues == 2      \* the history variable issues counts up to this
MaxThreads == 2     \* request threads that may be inside a handler at once
GapStep == 360      \* a long step of the clock: six minutes
GapHorizon == 720   \* the clock of the long steps runs to StartTime + GapHorizon
FarDistance == 90   \* face distance between the encodings of two different people

(* Program constants *)

COMMAND_TTL == 30   \* poll_command: a pending command expires after 30 seconds
RESULT_TTL == 60    \* get_capture_result: a result is served for 60 seconds
DUPLICATE_THRESHOLD_MINUTES == 5   \* app.py: minutes between two logs of a student
TOLERANCE == 60     \* utils.py: TOLERANCE = 0.6

----------------------------------------------------------------------------
(* Python values *)

None == <<>>
Some(v) == <<v>>
Val(o) == o[1]

\* str.strip(): leading and trailing whitespace removed
IsSpace(c) == c = " "

RECURSIVE lstrip(_)
lstrip(s) == IF s # <<>> /\ IsSpace(Head(s)) THEN lstrip(Tail(s)) ELSE s

RECURSIVE rstrip(_)
rstrip(s) == IF s # <<>> /\ IsSpace(s[Len(s)]) THEN rstrip(SubSeq(s, 1, Len(s) - 1)) ELSE s

\* mutant: the name is taken as typed
strip_not(s) == s

strip(s) == rstrip(lstrip(s))

\* str.replace(old, new) for one-character old and new
replace(s, old, new) == [i \in 1..Len(s) |-> IF s[i] = old THEN new ELSE s[i]]

\* truth value of an optional str: None and "" are false
Truthy(o) == o # None /\ Val(o) # <<>>

\* x or None
OrNone(x) == IF x = <<>> THEN None ELSE Some(x)

\* all orderings of a finite set
Orderings(S) ==
    { f \in [1..Cardinality(S) -> S] : \A i, j \in 1..Cardinality(S) : f[i] = f[j] => i = j }

----------------------------------------------------------------------------
(* Request inputs *)

\* the "mode" of POST /api/command/capture; any string is stored as sent
Modes == {"attendance", "register", "logout", "selfie"}

\* form / JSON values of a name field, as sent
RawNames == { <<>>, <<" ">>, <<"a">>, <<" ", "b", " ", "c", " ">> }

\* the server's offset from UTC, in seconds
TzOffsets == {0 - 3600, 0, 3600}

\* year_level, guardian_name, guardian_email as sent
RawMeta ==
    { [year_level |-> <<>>, guardian_name |-> <<>>, guardian_email |-> <<>>],
      [year_level |-> <<"y">>, guardian_name |-> <<"g">>, guardian_email |-> <<"e">>] }

\* the X-Capture-Mode header of POST /api/recognize (absent: "attendance")
HeaderModes == {"attendance", "register", "logout", "selfie"}

\* the X-Student-Name header (absent: ""); a header value has no outer whitespace
HeaderNames == { <<>>, <<"a">>, <<"b", " ", "c">> }

\* the people in front of the camera
People == {"p1", "p2"}

\* distance of a probe image to a gallery encoding of the same person
Distances == {60, 61}

\* what a request carries as its image: nothing, a multipart file part with an
\* empty filename, or image bytes showing no face or one person's face (bytes
\* that do not decode as an image behave as an image without a face)
Uploads ==
    { [kind |-> "none", face |-> None, distance |-> 0],
      [kind |-> "nofile", face |-> None, distance |-> 0],
      [kind |-> "image", face |-> None, distance |-> 0] }
    \cup { [kind |-> "image", face |-> Some(p), distance |-> d] : p \in People, d \in Distances }

\* the call inside a handler that raises (a store or file-system failure), if any
RegisterFaults == {"none", "add_student"}
AttendanceFaults == {"none", "check_duplicate_attendance", "log_attendance", "get_student"}
SaveFaults == {"save_uploaded_image"}
\* a failure inside the face_recognition library while the probe is matched
MatcherFaults == {"recognize_face"}

----------------------------------------------------------------------------
(* The command store *)

DefaultCommand ==
    [ pending |-> FALSE, mode |-> None, student_name |-> None,
      year_level |-> None, guardian_name |-> None, guardian_email |-> None,
      timestamp |-> 0, result |-> None, result_timestamp |-> 0 ]

Resp(op, code, body) == [op |-> op, code |-> code, body |-> body]

Init ==
    /\ now = StartTime
    /\ tz_offset \in TzOffsets
    /\ email_enabled \in BOOLEAN
    /\ capture_command = DefaultCommand
    /\ known_faces_dir = {}
    /\ known_faces = <<>>
    /\ students = {}
    /\ attendance_logs = <<>>
    /\ email_threads = {}
    /\ response = Resp("none", 0, [status |-> "none"])
    /\ issues = 0
    /\ requests = {}

\* the passage of time
Tick(step) ==
    /\ now + step <= StartTime + Horizon
    /\ now' = now + step
    /\ UNCHANGED <<requests, config, capture_command, store, response, issues>>

\* mutant: a command aged exactly COMMAND_TTL is still served
CommandValid_inclusive(cmd, t) == cmd.pending /\ (t - cmd.timestamp) <= COMMAND_TTL

\* the passage of a long time
LongTick ==
    /\ now + GapStep <= StartTime + GapHorizon
    /\ now' = now + GapStep
    /\ UNCHANGED <<requests, config, capture_command, store, response, issues>>

\* capture_command["pending"] and (time.time() - capture_command["timestamp"]) < 30
CommandValid(cmd, t) == cmd.pending /\ (t - cmd.timestamp) < COMMAND_TTL

\* mutant: a command that is not pending expires too
CommandExpired_not_pending(cmd, t) == (t - cmd.timestamp) >= COMMAND_TTL

\* capture_command["pending"] and (time.time() - capture_command["timestamp"]) >= 30
CommandExpired(cmd, t) == cmd.pending /\ (t - cmd.timestamp) >= COMMAND_TTL

\* mutant: a result aged exactly RESULT_TTL is still served
ResultVisible_inclusive(cmd, t) == cmd.result # None /\ (t - cmd.result_timestamp) <= RESULT_TTL

\* capture_command["result"] and (time.time() - capture_command["result_timestamp"]) < 60
ResultVisible(cmd, t) == cmd.result # None /\ (t - cmd.result_timestamp) < RESULT_TTL

\* mutant: a pending command is not overwritten, the new one only restarts its clock
IssuedCommand_first_kept(mode, name, meta, t) ==
    [ pending |-> TRUE,
      mode |-> IF capture_command.pending THEN capture_command.mode ELSE Some(mode),
      student_name |-> IF capture_command.pending THEN capture_command.student_name
                       ELSE IF mode = "register" THEN Some(strip(name)) ELSE None,
      year_level |-> IF mode = "register" THEN Some(strip(meta.year_level)) ELSE None,
      guardian_name |-> IF mode = "register" THEN Some(strip(meta.guardian_name)) ELSE None,
      guardian_email |-> IF mode = "register" THEN Some(strip(meta.guardian_email)) ELSE None,
      timestamp |-> t,
      result |-> None,
      result_timestamp |-> 0 ]

\* mutant: the result of the earlier command stays in the slot
IssuedCommand_keeps_result(mode, name, meta, t) ==
    [ pending |-> TRUE,
      mode |-> Some(mode),
      student_name |-> IF mode = "register" THEN Some(strip(name)) ELSE None,
      year_level |-> IF mode = "register" THEN Some(strip(meta.year_level)) ELSE None,
      guardian_name |-> IF mode = "register" THEN Some(strip(meta.guardian_name)) ELSE None,
      guardian_email |-> IF mode = "register" THEN Some(strip(meta.guardian_email)) ELSE None,
      timestamp |-> t,
      result |-> capture_command.result,
      result_timestamp |-> capture_command.result_timestamp ]

\* the slot written by a successful POST /api/command/capture
IssuedCommand(mode, name, meta, t) ==
    [ pending |-> TRUE,
      mode |-> Some(mode),
      student_name |-> IF mode = "register" THEN Some(strip(name)) ELSE None,
      year_level |-> IF mode = "register" THEN Some(strip(meta.year_level)) ELSE None,
      guardian_name |-> IF mode = "register" THEN Some(strip(meta.guardian_name)) ELSE None,
      guardian_email |-> IF mode = "register" THEN Some(strip(meta.guardian_email)) ELSE None,
      timestamp |-> t,
      result |-> None,
      result_timestamp |-> 0 ]

\* POST /api/command/capture with a JSON object of strings
request_capture(mode, name, meta) ==
    /\ IF mode = "register" /\ strip(name) = <<>>
       THEN /\ response' = Resp("request_capture", 400,
                    [status |-> "error", message |-> "Student name is required for registration"])
            /\ UNCHANGED capture_command
            /\ issues' = 0
       ELSE /\ capture_command' = IssuedCommand(mode, name, meta, now)
            /\ issues' = IF issues < MaxIssues THEN issues + 1 ELSE issues
            /\ response' = Resp("request_capture", 200,
                    [status |-> "success", message |-> "Capture command sent (<mode>)", mode |-> mode])
    /\ UNCHANGED <<now, requests, config, store>>

\* POST /api/command/capture whose body does not decode to an object of strings:
\* the handler's except branch
request_capture_undecodable ==
    /\ response' = Resp("request_capture", 500, [status |-> "error", message |-> "exception"])
    /\ issues' = 0
    /\ UNCHANGED <<now, requests, config, capture_command, store>>

\* mutant: the timeout is published but the command stays pending
ExpireCommand_still_pending(cmd, t) ==
    [cmd EXCEPT !.result = Some([status |-> "timeout", message |-> "Capture timed out"]),
                !.result_timestamp = t]

\* the timeout transition of poll_command
ExpireCommand(cmd, t) ==
    [cmd EXCEPT !.pending = FALSE,
                !.result = Some([status |-> "timeout", message |-> "Capture timed out"]),
                !.result_timestamp = t]

\* mutant: the poll that serves a command clears pending
poll_command_consumes ==
    /\ IF CommandValid(capture_command, now)
       THEN /\ response' = Resp("poll_command", 200,
                    [status |-> "capture",
                     mode |-> capture_command.mode,
                     student_name |-> capture_command.student_name])
            /\ capture_command' = [capture_command EXCEPT !.pending = FALSE]
       ELSE /\ capture_command' =
                    IF CommandExpired(capture_command, now)
                    THEN ExpireCommand(capture_command, now)
                    ELSE capture_command
            /\ response' = Resp("poll_command", 200, [status |-> "no_command"])
    /\ UNCHANGED <<now, requests, config, store, issues>>

\* GET /api/command/poll
poll_command ==
    /\ IF CommandValid(capture_command, now)
       THEN /\ response' = Resp("poll_command", 200,
                    [status |-> "capture",
                     mode |-> capture_command.mode,
                     student_name |-> capture_command.student_name])
            /\ UNCHANGED capture_command
       ELSE /\ capture_command' =
                    IF CommandExpired(capture_command, now)
                    THEN ExpireCommand(capture_command, now)
                    ELSE capture_command
            /\ response' = Resp("poll_command", 200, [status |-> "no_command"])
    /\ UNCHANGED <<now, requests, config, store, issues>>

\* mutant: the result poll times an expired command out as the command poll does
get_capture_result_expires ==
    /\ response' =
            IF ResultVisible(capture_command, now)
            THEN Resp("get_capture_result", 200, Val(capture_command.result))
            ELSE Resp("get_capture_result", 200,
                      [status |-> "waiting", pending |-> CommandValid(capture_command, now)])
    /\ capture_command' =
            IF CommandExpired(capture_command, now)
            THEN ExpireCommand(capture_command, now)
            ELSE capture_command
    /\ issues' = 0
    /\ UNCHANGED <<now, requests, config, store>>

\* GET /api/command/result
get_capture_result ==
    /\ response' =
            IF ResultVisible(capture_command, now)
            THEN Resp("get_capture_result", 200, Val(capture_command.result))
            ELSE Resp("get_capture_result", 200,
                      [status |-> "waiting", pending |-> capture_command.pending])
    /\ issues' = 0
    /\ UNCHANGED <<now, requests, config, capture_command, store>>

\* mutant: the command slot is reset, the result slot is left as it is
clear_command_keeps_result ==
    /\ capture_command' = [DefaultCommand EXCEPT !.result = capture_command.result,
                                !.result_timestamp = capture_command.result_timestamp]
    /\ response' = Resp("clear_command", 200, [status |-> "success"])
    /\ issues' = 0
    /\ UNCHANGED <<now, requests, config, store>>

\* POST /api/command/clear
clear_command ==
    /\ capture_command' = DefaultCommand
    /\ response' = Resp("clear_command", 200, [status |-> "success"])
    /\ issues' = 0
    /\ UNCHANGED <<now, requests, config, store>>

----------------------------------------------------------------------------
(* utils.py: the gallery and the matcher *)

\* face_recognition.face_locations(image) finds a face
face_detected(image) == image.face # None

\* mutant: the image is saved without looking for a face in it
add_known_face_unverified(dir, image, student_name) ==
    LET filename == replace(student_name, " ", "_")
    IN [success |-> TRUE,
        dir |-> {f \in dir : f.filename # filename}
                    \cup {[filename |-> filename, encoding |-> "nobody"]}]

\* add_known_face: the image is saved as <name with "_" for " ">.jpg when it shows a face
add_known_face(dir, image, student_name) ==
    IF ~face_detected(image)
    THEN [success |-> FALSE, dir |-> dir]
    ELSE LET filename == replace(student_name, " ", "_")
         IN [success |-> TRUE,
             dir |-> {f \in dir : f.filename # filename}
                         \cup {[filename |-> filename, encoding |-> Val(image.face)]}]

\* load_known_faces: one entry per file, named by the file name with " " for "_",
\* in the order os.listdir happens to give
load_known_faces(dir) ==
    Orderings({ [name |-> replace(f.filename, "_", " "), encoding |-> f.encoding] : f \in dir })

\* face_recognition.face_distance of one gallery encoding to the probe
face_distance(encoding, image) ==
    IF Val(image.face) = encoding THEN image.distance ELSE FarDistance

\* mutant: a best distance equal to the tolerance is rejected
WithinTolerance_strict(best_distance) == best_distance < TOLERANCE

\* best_distance <= tolerance
WithinTolerance(best_distance) == best_distance <= TOLERANCE

\* mutant: no match is reported as an empty name with confidence zero
NoMatch_empty_name == [name |-> Some(<<>>), confidence |-> Some(0)]

NoMatch == [name |-> None, confidence |-> None]

\* recognize_face: (matched_name, confidence); an exception raised while the probe is
\* loaded, encoded or compared is caught inside and answered as no match
recognize_face(image, known, fault) ==
    IF Len(known) = 0 \/ fault \in MatcherFaults \/ ~face_detected(image)
    THEN NoMatch
    ELSE LET d(i) == face_distance(known[i].encoding, image)
             best_match_index ==
                 CHOOSE i \in 1..Len(known) :
                     /\ \A j \in 1..Len(known) : d(i) <= d(j)
                     /\ \A j \in 1..(i - 1) : d(j) > d(i)
             best_distance == d(best_match_index)
         IN IF WithinTolerance(best_distance)
            THEN [name |-> Some(known[best_match_index].name),
                  confidence |-> Some(100 - best_distance)]
            ELSE NoMatch

----------------------------------------------------------------------------
(* database.py *)

\* SQL COALESCE(?, column)
COALESCE(x, y) == IF x # None THEN x ELSE y

\* add_student: insert, or update the existing row of that name
add_student(rows, name, year_level, guardian_name, guardian_email) ==
    IF \E r \in rows : r.name = name
    THEN { IF r.name = name
           THEN [r EXCEPT !.year_level = COALESCE(year_level, @),
                          !.guardian_name = COALESCE(guardian_name, @),
                          !.guardian_email = COALESCE(guardian_email, @)]
           ELSE r : r \in rows }
    ELSE rows \cup { [name |-> name, year_level |-> year_level,
                      guardian_name |-> guardian_name, guardian_email |-> guardian_email] }

\* get_student: the row of that name, or None
get_student(rows, name) ==
    IF \E r \in rows : r.name = name
    THEN Some(CHOOSE r \in rows : r.name = name)
    ELSE None

\* log_attendance: the row is stamped with datetime.now(), the server's local time
log_attendance(logs, student_name, log_type, confidence, utc_now) ==
    Append(logs, [id |-> Len(logs) + 1, student_name |-> student_name, log_type |-> log_type,
                  timestamp |-> utc_now + tz_offset, confidence |-> confidence,
                  email_sent |-> FALSE])

\* mark_email_sent
mark_email_sent(logs, record_id) ==
    [i \in 1..Len(logs) |->
        IF logs[i].id = record_id THEN [logs[i] EXCEPT !.email_sent = TRUE] ELSE logs[i]]

\* mutant: the log type is not part of the key
check_duplicate_attendance_any_type(logs, student_name, log_type, minutes_threshold, utc_now) ==
    \E i \in 1..Len(logs) :
        /\ logs[i].student_name = student_name
        /\ logs[i].timestamp > utc_now - minutes_threshold * 60

\* check_duplicate_attendance: timestamp > datetime('now', '-N minutes'), SQLite's
\* 'now' being UTC
check_duplicate_attendance(logs, student_name, log_type, minutes_threshold, utc_now) ==
    \E i \in 1..Len(logs) :
        /\ logs[i].student_name = student_name
        /\ logs[i].log_type = log_type
        /\ logs[i].timestamp > utc_now - minutes_threshold * 60

----------------------------------------------------------------------------
(* app.py: the attendance workflow *)

\* mutant: an error body that names a log type
ErrorBody_with_log_type(message) == [status |-> "error", message |-> message, log_type |-> "IN"]

ErrorBody(message) == [status |-> "error", message |-> message]

\* what a handler did: its response and the store it leaves
Outcome(code, body, dir, known, rows, logs, threads) ==
    [code |-> code, body |-> body, dir |-> dir, known |-> known, students |-> rows,
     logs |-> logs, threads |-> threads]

\* a response that leaves the store as it is
Reply(code, body) ==
    Outcome(code, body, known_faces_dir, known_faces, students, attendance_logs, email_threads)

\* mutant: the except branch answers 200
Raised_as_ok(logs) ==
    Outcome(200, ErrorBody("exception"), known_faces_dir, known_faces, students, logs,
            email_threads)

\* the except branch of a handler, reached with these attendance rows written
Raised(logs) ==
    Outcome(500, ErrorBody("exception"), known_faces_dir, known_faces, students, logs,
            email_threads)

\* mutant: the row is marked whether or not a notification was handed off
send_guardian_email_marks_always(rows, logs, threads, student_name, record_id) ==
    LET student == get_student(rows, student_name)
    IN IF ~email_enabled \/ student = None \/ ~Truthy(Val(student).guardian_email)
       THEN [logs |-> mark_email_sent(logs, record_id), threads |-> threads]
       ELSE [logs |-> mark_email_sent(logs, record_id),
             threads |-> threads \cup { [to_email |-> Val(Val(student).guardian_email),
                                         record_id |-> record_id] }]

\* mutant: the notifications of the student's earlier records are handed off again
send_guardian_email_resends(rows, logs, threads, student_name, record_id) ==
    LET student == get_student(rows, student_name)
    IN IF ~email_enabled \/ student = None \/ ~Truthy(Val(student).guardian_email)
       THEN [logs |-> logs, threads |-> threads]
       ELSE [logs |-> mark_email_sent(logs, record_id),
             threads |-> threads \cup { [to_email |-> Val(Val(student).guardian_email),
                                         record_id |-> i] : i \in 1..record_id }]

\* send_guardian_email with send_attendance_notification and send_email_async:
\* the thread is started and the row marked when email is enabled and the
\* student's row has a guardian email
send_guardian_email(rows, logs, threads, student_name, record_id) ==
    LET student == get_student(rows, student_name)
    IN IF ~email_enabled \/ student = None \/ ~Truthy(Val(student).guardian_email)
       THEN [logs |-> logs, threads |-> threads]
       ELSE [logs |-> mark_email_sent(logs, record_id),
             threads |-> threads \cup { [to_email |-> Val(Val(student).guardian_email),
                                         record_id |-> record_id] }]

\* match, duplicate check, insert, notification: the code shared by the logout and
\* attendance branches of recognize and by web_logout and web_attendance
attendance_flow(log_type, image, fault) ==
    LET m == recognize_face(image, known_faces, fault)
    IN IF m.name = None
       THEN Reply(200, [status |-> "unknown", message |-> "Face not recognized"])
       ELSE IF fault = "check_duplicate_attendance"
       THEN Raised(attendance_logs)
       ELSE IF check_duplicate_attendance(attendance_logs, Val(m.name), log_type,
                                          DUPLICATE_THRESHOLD_MINUTES, now)
       THEN Reply(200, [status |-> "duplicate", name |-> Val(m.name), log_type |-> log_type,
                        message |-> IF log_type = "OUT"
                                    THEN "Already logged out within 5 minutes"
                                    ELSE "Already logged within 5 minutes"])
       ELSE IF fault = "log_attendance"
       THEN Raised(attendance_logs)
       ELSE LET logged == log_attendance(attendance_logs, Val(m.name), log_type,
                                         Val(m.confidence), now)
                record_id == Len(logged)
            IN IF fault = "get_student" /\ email_enabled
               THEN Raised(logged)
               ELSE LET mail == send_guardian_email(students, logged, email_threads,
                                                    Val(m.name), record_id)
                    IN Outcome(200,
                               [status |-> "success", name |-> Val(m.name),
                                log_type |-> log_type, confidence |-> Val(m.confidence),
                                record_id |-> record_id, timestamp |-> now + tz_offset],
                               known_faces_dir, known_faces, students, mail.logs, mail.threads)

\* add_known_face, reload_known_faces, add_student and the response of a
\* registration whose name and image are present
register_flow(name, year_level, guardian_name, guardian_email, image, fault, ok_body, no_face) ==
    LET added == add_known_face(known_faces_dir, image, name)
    IN IF ~added.success
       THEN { Reply(400, ErrorBody(no_face)) }
       ELSE { IF fault = "add_student"
              THEN Outcome(500, ErrorBody("exception"), added.dir, known, students,
                           attendance_logs, email_threads)
              ELSE Outcome(200, ok_body, added.dir, known,
                           add_student(students, name, year_level, guardian_name, guardian_email),
                           attendance_logs, email_threads)
              : known \in load_known_faces(added.dir) }

\* mutant: the result is stored but the command stays pending
Publish_keeps_pending(cmd, result, t) ==
    [cmd EXCEPT !.result = Some(result), !.result_timestamp = t]

\* the result slot written by every exit of recognize
Publish(cmd, result, t) ==
    [cmd EXCEPT !.result = Some(result), !.result_timestamp = t, !.pending = FALSE]

\* the store a handler leaves; a handler other than the command store's ends a
\* run of issued commands
StoreBecomes(out) ==
    /\ Len(out.logs) <= MaxRecords
    /\ known_faces_dir' = out.dir
    /\ known_faces' = out.known
    /\ students' = out.students
    /\ attendance_logs' = out.logs
    /\ email_threads' = out.threads
    /\ issues' = 0

\* the exits of POST /api/recognize
recognize_outcomes(capture_mode, student_name_header, upload, fault) ==
    IF upload.kind = "nofile"
    THEN { Reply(400, ErrorBody("No file selected")) }
    ELSE IF upload.kind = "none"
    THEN { Reply(400, ErrorBody("No image data received")) }
    ELSE IF fault = "save_uploaded_image"
    THEN { Raised(attendance_logs) }
    ELSE IF capture_mode = "register"
    THEN LET reg_name == IF student_name_header # <<>>
                         THEN Some(student_name_header)
                         ELSE capture_command.student_name
         IN IF ~Truthy(reg_name)
            THEN { Reply(400, ErrorBody("Student name required for registration")) }
            ELSE register_flow(Val(reg_name), capture_command.year_level,
                               capture_command.guardian_name, capture_command.guardian_email,
                               upload, fault,
                               [status |-> "registered", message |-> "Successfully registered <name>",
                                name |-> Val(reg_name), timestamp |-> now + tz_offset],
                               "Could not detect face in the image")
    ELSE IF capture_mode = "logout"
    THEN { attendance_flow("OUT", upload, fault) }
    ELSE { attendance_flow("IN", upload, fault) }

\* mutant: the mode of the stored command, when there is one, goes before the header
recognize_mode_from_slot(capture_mode, student_name_header, upload, fault) ==
    \E out \in recognize_outcomes(IF capture_command.mode # None
                                  THEN Val(capture_command.mode) ELSE capture_mode,
                                  student_name_header, upload, fault) :
        /\ StoreBecomes(out)
        /\ capture_command' = Publish(capture_command, out.body, now)
        /\ response' = Resp("recognize", out.code, out.body)
        /\ UNCHANGED <<now, requests, config>>

\* POST /api/recognize
recognize(capture_mode, student_name_header, upload, fault) ==
    \E out \in recognize_outcomes(capture_mode, student_name_header, upload, fault) :
        /\ StoreBecomes(out)
        /\ capture_command' = Publish(capture_command, out.body, now)
        /\ response' = Resp("recognize", out.code, out.body)
        /\ UNCHANGED <<now, requests, config>>

\* the exits of POST /api/register (multipart)
register_student_outcomes(name, meta, upload, fault) ==
    IF strip(name) = <<>>
    THEN { Reply(400, ErrorBody("Student name is required")) }
    ELSE IF upload.kind = "nofile"
    THEN { Reply(400, ErrorBody("No image file selected")) }
    ELSE IF upload.kind = "none"
    THEN { Reply(400, ErrorBody("No image data received")) }
    ELSE register_flow(strip(name), OrNone(strip(meta.year_level)),
                       OrNone(strip(meta.guardian_name)), OrNone(strip(meta.guardian_email)),
                       upload, fault,
                       [status |-> "success", message |-> "Successfully registered <name>",
                        name |-> strip(name)],
                       "Could not detect face in the image")

\* POST /api/register
register_student(name, meta, upload, fault) ==
    \E out \in register_student_outcomes(name, meta, upload, fault) :
        /\ StoreBecomes(out)
        /\ response' = Resp("register_student", out.code, out.body)
        /\ UNCHANGED <<now, requests, config, capture_command>>

\* how a request of /api/web/register may carry its fields and image
Transports == {"multipart", "json", "form"}

\* the image a transport can carry: a multipart request has a file part, a JSON
\* request a base64 image_data or none, a plain form no image
Carries(transport, upload) ==
    \/ transport = "multipart" /\ upload.kind \in {"nofile", "image"}
    \/ transport = "json" /\ upload.kind \in {"none", "image"}
    \/ transport = "form" /\ upload.kind = "none"

\* mutant: the name is not checked
web_register_outcomes_unchecked(name, meta, upload, fault) ==
    IF upload.kind # "image"
    THEN { Reply(400, ErrorBody("No image data received")) }
    ELSE IF fault = "save_uploaded_image"
    THEN { Raised(attendance_logs) }
    ELSE register_flow(strip(name), OrNone(strip(meta.year_level)),
                       OrNone(strip(meta.guardian_name)), OrNone(strip(meta.guardian_email)),
                       upload, fault,
                       [status |-> "registered", message |-> "Successfully registered <name>",
                        name |-> strip(name), timestamp |-> now + tz_offset],
                       "Could not detect face in the image. Please ensure face is clearly visible.")

\* the exits of POST /api/web/register
web_register_outcomes(name, meta, upload, fault) ==
    IF strip(name) = <<>>
    THEN { Reply(400, ErrorBody("Student name is required")) }
    ELSE IF upload.kind # "image"
    THEN { Reply(400, ErrorBody("No image data received")) }
    ELSE IF fault = "save_uploaded_image"
    THEN { Raised(attendance_logs) }
    ELSE register_flow(strip(name), OrNone(strip(meta.year_level)),
                       OrNone(strip(meta.guardian_name)), OrNone(strip(meta.guardian_email)),
                       upload, fault,
                       [status |-> "registered", message |-> "Successfully registered <name>",
                        name |-> strip(name), timestamp |-> now + tz_offset],
                       "Could not detect face in the image. Please ensure face is clearly visible.")

\* POST /api/web/register
web_register(transport, name, meta, upload, fault) ==
    /\ Carries(transport, upload)
    /\ \E out \in web_register_outcomes(name, meta, upload, fault) :
        /\ StoreBecomes(out)
        /\ response' = Resp("web_register", out.code, out.body)
        /\ UNCHANGED <<now, requests, config, capture_command>>

\* the exit of POST /api/web/attendance (log_type "IN") and /api/web/logout ("OUT")
web_outcome(log_type, upload, fault) ==
    IF upload.kind # "image"
    THEN Reply(400, ErrorBody("No image data received"))
    ELSE IF fault = "save_uploaded_image"
    THEN Raised(attendance_logs)
    ELSE attendance_flow(log_type, upload, fault)

\* mutant: the resolution is published into the command store as recognize does
web_attendance_publishes(upload, fault) ==
    LET out == web_outcome("IN", upload, fault)
    IN  /\ StoreBecomes(out)
        /\ capture_command' = Publish(capture_command, out.body, now)
        /\ response' = Resp("web_attendance", out.code, out.body)
        /\ UNCHANGED <<now, requests, config>>

\* POST /api/web/attendance
web_attendance(upload, fault) ==
    LET out == web_outcome("IN", upload, fault)
    IN  /\ StoreBecomes(out)
        /\ response' = Resp("web_attendance", out.code, out.body)
        /\ UNCHANGED <<now, requests, config, capture_command>>

\* mutant: the logout endpoint logs as the attendance endpoint does
web_logout_as_attendance(upload, fault) ==
    LET out == web_outcome("IN", upload, fault)
    IN  /\ StoreBecomes(out)
        /\ response' = Resp("web_logout", out.code, out.body)
        /\ UNCHANGED <<now, requests, config, capture_command>>

\* POST /api/web/logout
web_logout(upload, fault) ==
    LET out == web_outcome("OUT", upload, fault)
    IN  /\ StoreBecomes(out)
        /\ response' = Resp("web_logout", out.code, out.body)
        /\ UNCHANGED <<now, requests, config, capture_command>>

\* mutant: the thread takes back the mark of its record when it ends
send_email_thread_unmarks ==
    \E t \in email_threads :
        /\ email_threads' = email_threads \ {t}
        /\ attendance_logs' =
                [i \in 1..Len(attendance_logs) |->
                    IF attendance_logs[i].id = t.record_id
                    THEN [attendance_logs[i] EXCEPT !.email_sent = FALSE]
                    ELSE attendance_logs[i]]
        /\ UNCHANGED <<now, requests, config, capture_command, known_faces_dir, known_faces, students,
                       response, issues>>

\* _send_email: a notification thread runs to its end, the mail sent or not
send_email_thread ==
    \E t \in email_threads :
        /\ email_threads' = email_threads \ {t}
        /\ UNCHANGED <<now, requests, config, capture_command, known_faces_dir, known_faces, students,
                       attendance_logs, response, issues>>

----------------------------------------------------------------------------
(* Concurrent requests.  app.run(threaded=True) serves every request in a thread of
   its own and the handlers take no lock: between two statements of a handler
   another request may run.  A thread inside a handler is an element of requests,
   pc naming the statement it executes next. *)

\* an identifier for a new request thread
FreeIds == {id \in 1..MaxThreads : \A r \in requests : r.id # id}

\* poll_command, line 202: the validity test; a valid command is answered at once
poll_begin ==
    /\ FreeIds # {}
    /\ IF CommandValid(capture_command, now)
       THEN /\ response' = Resp("poll_command", 200,
                    [status |-> "capture",
                     mode |-> capture_command.mode,
                     student_name |-> capture_command.student_name])
            /\ UNCHANGED requests
       ELSE /\ requests' = requests \cup
                    {[op |-> "poll_command", id |-> CHOOSE id \in FreeIds : TRUE,
                      pc |-> "expired"]}
            /\ UNCHANGED response
    /\ UNCHANGED <<now, config, capture_command, store, issues>>

\* poll_command, line 210: the expiry test; without an expired command the thread
\* answers no_command
poll_expired(r) ==
    /\ r.op = "poll_command" /\ r.pc = "expired"
    /\ IF CommandExpired(capture_command, now)
       THEN /\ requests' = (requests \ {r}) \cup {[r EXCEPT !.pc = "pending"]}
            /\ UNCHANGED response
       ELSE /\ requests' = requests \ {r}
            /\ response' = Resp("poll_command", 200, [status |-> "no_command"])
    /\ UNCHANGED <<now, config, capture_command, store, issues>>

\* poll_command, line 211: capture_command["pending"] = False
poll_pending(r) ==
    /\ r.op = "poll_command" /\ r.pc = "pending"
    /\ capture_command' = [capture_command EXCEPT !.pending = FALSE]
    /\ requests' = (requests \ {r}) \cup {[r EXCEPT !.pc = "result"]}
    /\ UNCHANGED <<now, config, store, response, issues>>

\* poll_command, line 212: capture_command["result"] = the timeout result
poll_result(r) ==
    /\ r.op = "poll_command" /\ r.pc = "result"
    /\ capture_command' =
            [capture_command EXCEPT
                !.result = Some([status |-> "timeout", message |-> "Capture timed out"])]
    /\ requests' = (requests \ {r}) \cup {[r EXCEPT !.pc = "result_timestamp"]}
    /\ UNCHANGED <<now, config, store, response, issues>>

\* poll_command, lines 213-217: capture_command["result_timestamp"] = time.time(),
\* and the answer no_command
poll_result_timestamp(r) ==
    /\ r.op = "poll_command" /\ r.pc = "result_timestamp"
    /\ capture_command' = [capture_command EXCEPT !.result_timestamp = now]
    /\ requests' = requests \ {r}
    /\ response' = Resp("poll_command", 200, [status |-> "no_command"])
    /\ UNCHANGED <<now, config, store, issues>>

\* recognize, attendance and logout branches up to recognize_face: an image that
\* matches nobody is answered at once, a match goes on to the duplicate check
recognize_begin(capture_mode, upload) ==
    /\ FreeIds # {}
    /\ capture_mode # "register"
    /\ upload.kind = "image"
    /\ LET m == recognize_face(upload, known_faces, "none")
       IN IF m.name = None
          THEN /\ recognize(capture_mode, <<>>, upload, "none")
          ELSE /\ requests' = requests \cup
                    {[op |-> "recognize", id |-> CHOOSE id \in FreeIds : TRUE,
                      pc |-> "check_duplicate_attendance",
                      log_type |-> IF capture_mode = "logout" THEN "OUT" ELSE "IN",
                      name |-> Val(m.name), confidence |-> Val(m.confidence)]}
               /\ UNCHANGED <<now, config, capture_command, store, response, issues>>

\* recognize: is_duplicate = check_duplicate_attendance(...), a query on a connection
\* of its own; a duplicate is answered and published
recognize_check(r) ==
    /\ r.op = "recognize" /\ r.pc = "check_duplicate_attendance"
    /\ IF check_duplicate_attendance(attendance_logs, r.name, r.log_type,
                                     DUPLICATE_THRESHOLD_MINUTES, now)
       THEN LET result == [status |-> "duplicate", name |-> r.name, log_type |-> r.log_type,
                           message |-> IF r.log_type = "OUT"
                                       THEN "Already logged out within 5 minutes"
                                       ELSE "Already logged within 5 minutes"]
            IN  /\ requests' = requests \ {r}
                /\ capture_command' = Publish(capture_command, result, now)
                /\ response' = Resp("recognize", 200, result)
                /\ issues' = 0
       ELSE /\ requests' = (requests \ {r}) \cup {[r EXCEPT !.pc = "log_attendance"]}
            /\ UNCHANGED <<capture_command, response, issues>>
    /\ UNCHANGED <<now, config, store>>

\* recognize: log_attendance, send_guardian_email, the success result published and
\* answered
recognize_log(r) ==
    /\ r.op = "recognize" /\ r.pc = "log_attendance"
    /\ LET logged == log_attendance(attendance_logs, r.name, r.log_type, r.confidence, now)
           record_id == Len(logged)
           mail == send_guardian_email(students, logged, email_threads, r.name, record_id)
           result == [status |-> "success", name |-> r.name, log_type |-> r.log_type,
                      confidence |-> r.confidence, record_id |-> record_id,
                      timestamp |-> now + tz_offset]
       IN  /\ Len(logged) <= MaxRecords
           /\ attendance_logs' = mail.logs
           /\ email_threads' = mail.threads
           /\ capture_command' = Publish(capture_command, result, now)
           /\ response' = Resp("recognize", 200, result)
    /\ requests' = requests \ {r}
    /\ issues' = 0
    /\ UNCHANGED <<now, config, known_faces_dir, known_faces, students>>

----------------------------------------------------------------------------
Next ==
    \/ Tick(TickStep)
    \/ \E mode \in Modes, name \in RawNames, meta \in RawMeta : request_capture(mode, name, meta)
    \/ request_capture_undecodable
    \/ poll_command
    \/ get_capture_result
    \/ clear_command
    \/ \E capture_mode \in HeaderModes, header \in HeaderNames, upload \in Uploads,
          fault \in RegisterFaults \cup AttendanceFaults \cup SaveFaults :
            recognize(capture_mode, header, upload, fault)
    \/ \E name \in RawNames, meta \in RawMeta, upload \in Uploads, fault \in RegisterFaults :
            register_student(name, meta, upload, fault)
    \/ \E transport \in Transports, name \in RawNames, meta \in RawMeta, upload \in Uploads,
          fault \in RegisterFaults \cup SaveFaults :
            web_register(transport, name, meta, upload, fault)
    \/ \E upload \in Uploads, fault \in AttendanceFaults \cup SaveFaults :
            web_attendance(upload, fault)
    \/ \E upload \in Uploads, fault \in AttendanceFaults \cup SaveFaults :
            web_logout(upload, fault)
    \/ send_email_thread
    \/ poll_begin
    \/ \E r \in requests :
            \/ poll_expired(r)
            \/ poll_pending(r)
            \/ poll_result(r)
            \/ poll_result_timestamp(r)
            \/ recognize_check(r)
            \/ recognize_log(r)
    \/ \E capture_mode \in HeaderModes, upload \in Uploads : recognize_begin(capture_mode, upload)

Spec == Init /\ [][Next]_vars

----------------------------------------------------------------------------
(* The command store by itself: every command-store request, the clock, and the
   submissions to /api/recognize that leave the gallery and the database alone *)

NextCommand ==
    \/ Tick(TickStep)
    \/ \E mode \in Modes, name \in RawNames, meta \in RawMeta : request_capture(mode, name, meta)
    \/ request_capture_undecodable
    \/ poll_command
    \/ get_capture_result
    \/ clear_command
    \/ \E capture_mode \in HeaderModes, header \in HeaderNames,
          upload \in {u \in Uploads : u.face = None}, fault \in {"none", "save_uploaded_image"} :
            recognize(capture_mode, header, upload, fault)

\* the command store does not read the configuration: one is enough here
InitCommand == Init /\ tz_offset = 0 /\ email_enabled

SpecCommand == InitCommand /\ [][NextCommand]_vars

----------------------------------------------------------------------------
(* Capture submissions: every exit of /api/recognize for one name and one person,
   with the command-store requests around it *)

CaptureUploads == {u \in Uploads : u.face \in {None, Some("p1")}}

\* the calls a submission in this mode goes through
FaultsOf(capture_mode) ==
    SaveFaults \cup (IF capture_mode = "register" THEN RegisterFaults ELSE AttendanceFaults)

InitCapture == Init /\ tz_offset = 0 /\ email_enabled

NextCapture ==
    \/ Tick(COMMAND_TTL)
    \/ \E meta \in RawMeta : request_capture("register", <<"a">>, meta)
    \/ poll_command
    \/ get_capture_result
    \/ clear_command
    \/ \E upload \in {u \in CaptureUploads : u.kind # "image"} :
            recognize("attendance", <<>>, upload, "none")
    \/ \E upload \in {u \in CaptureUploads : u.kind = "image"} :
            \/ \E header \in {<<>>, <<"a">>}, fault \in FaultsOf("register") :
                    recognize("register", header, upload, fault)
            \/ \E capture_mode \in {"attendance", "logout"}, fault \in FaultsOf("attendance") :
                    recognize(capture_mode, <<>>, upload, fault)

SpecCapture == InitCapture /\ [][NextCapture]_vars

----------------------------------------------------------------------------
(* The web fallback: the browser's submissions for one name and one person, with a
   command of the dashboard pending or not *)

InitWeb == Init /\ tz_offset = 0 /\ email_enabled

\* the calls a web submission of this image goes through
WebFaultsOf(upload, faults) == IF upload.kind = "image" THEN faults \cup SaveFaults ELSE {"none"}

NextWeb ==
    \/ Tick(COMMAND_TTL)
    \/ \E mode \in {"attendance", "logout"} :
            request_capture(mode, <<>>, CHOOSE meta \in RawMeta : meta.year_level = <<>>)
    \/ poll_command
    \/ get_capture_result
    \/ \E transport \in Transports, upload \in {u \in CaptureUploads : u.distance # TOLERANCE} :
            \/ web_register(transport, <<>>, CHOOSE meta \in RawMeta : meta.year_level = <<>>,
                            upload, "none")
            \/ \E meta \in RawMeta, fault \in WebFaultsOf(upload, RegisterFaults) :
                    web_register(transport, <<"a">>, meta, upload, fault)
    \/ \E upload \in CaptureUploads :
            \E fault \in WebFaultsOf(upload, AttendanceFaults) : web_attendance(upload, fault)
    \/ \E upload \in CaptureUploads :
            \E fault \in WebFaultsOf(upload, AttendanceFaults) : web_logout(upload, fault)

SpecWeb == InitWeb /\ [][NextWeb]_vars

----------------------------------------------------------------------------
(* Registration: the three endpoints that register a student, with a name that is
   absent, blank or present *)

\* a registration does not read the distance of its image
RegisterUploads == {u \in CaptureUploads : u.distance # TOLERANCE}

RegisterNames == RawNames \ { <<" ", "b", " ", "c", " ">> }

InitRegister == Init /\ tz_offset = 0 /\ email_enabled

NextRegister ==
    \/ \E name \in RegisterNames, meta \in RawMeta : request_capture("register", name, meta)
    \/ clear_command
    \/ \E header \in {<<>>, <<"a">>}, upload \in RegisterUploads :
            \E fault \in WebFaultsOf(upload, RegisterFaults) :
                recognize("register", header, upload, fault)
    \/ \E name \in RegisterNames, meta \in RawMeta, upload \in RegisterUploads,
          fault \in RegisterFaults :
            register_student(name, meta, upload, fault)
    \/ \E transport \in Transports, name \in RegisterNames, meta \in RawMeta,
          upload \in RegisterUploads :
            \E fault \in WebFaultsOf(upload, RegisterFaults) :
                web_register(transport, name, meta, upload, fault)

SpecRegister == InitRegister /\ [][NextRegister]_vars

----------------------------------------------------------------------------
(* Attendance: one registered student in front of the camera, in every timezone of
   TzOffsets, no call failing and no guardian notified *)

\* the images of the one student
StudentUploads == {u \in Uploads : u.face = Some("p1")}

InitAttendance == Init /\ ~email_enabled

NextAttendance ==
    \/ Tick(COMMAND_TTL)
    \/ \E upload \in StudentUploads :
            register_student(<<"a">>, CHOOSE meta \in RawMeta : meta.year_level = <<>>,
                             upload, "none")
    \/ \E capture_mode \in {"attendance", "logout"}, upload \in StudentUploads :
            recognize(capture_mode, <<>>, upload, "none")
    \/ \E upload \in StudentUploads : web_attendance(upload, "none")
    \/ \E upload \in StudentUploads : web_logout(upload, "none")

SpecAttendance == InitAttendance /\ [][NextAttendance]_vars

----------------------------------------------------------------------------
(* The command store contract *)

\* the names that are empty or whitespace only
BlankNames == {name \in RawNames : \A i \in 1..Len(name) : name[i] = " "}

\* the name a register command carries, as the operator sees it after trimming
TrimmedName(name) ==
    IF name = <<" ", "b", " ", "c", " ">> THEN <<"b", " ", "c">> ELSE name

\* C1: single slot, last writer wins.  A successful POST /api/command/capture that
\* follows another one leaves in the slot the mode and the student name of its own
\* request and nothing of the earlier command; a GET /api/command/poll made less than
\* 30 s after the second of two such requests answers capture; and whatever a poll
\* answers as capture is the mode and the name the slot holds at that moment, so the
\* overwritten command is never served again.
C1_LastIssueWins ==
    /\ [][\A mode \in Modes, name \in RawNames \ BlankNames, meta \in RawMeta :
            (issues >= 1 /\ request_capture(mode, name, meta))
                => /\ response'.code = 200
                   /\ capture_command'.pending
                   /\ capture_command'.mode = Some(mode)
                   /\ capture_command'.student_name =
                        IF mode = "register" THEN Some(TrimmedName(name)) ELSE None
                   /\ capture_command'.timestamp = now
                   /\ capture_command'.result = None]_vars
    /\ [][(issues >= 2 /\ now - capture_command.timestamp < 30 /\ poll_command)
                => response'.body.status = "capture"]_vars
    /\ [][(poll_command /\ response'.body.status = "capture")
                => /\ response'.body.mode = capture_command.mode
                   /\ response'.body.student_name = capture_command.student_name
                   /\ capture_command' = capture_command]_vars

\* C1 witness: a poll has answered capture with the register command "b c" that was
\* issued, later than the server's start, right after another command
C1_Witness ==
    /\ issues >= 2
    /\ response.op = "poll_command"
    /\ response.body.status = "capture"
    /\ response.body.mode = Some("register")
    /\ response.body.student_name = Some(<<"b", " ", "c">>)
    /\ capture_command.timestamp > StartTime
    /\ now > capture_command.timestamp

\* C2: a poll that finds the command pending 30 s or more after it was issued answers
\* no_command, clears pending and stores a result of status timeout stamped now; a
\* poll that finds no pending command answers no_command and leaves pending false;
\* and pending becomes true again only by a successful POST /api/command/capture.
C2_TimeoutOnPoll ==
    /\ [][(capture_command.pending /\ now - capture_command.timestamp >= 30 /\ poll_command)
                => /\ response'.body = [status |-> "no_command"]
                   /\ ~capture_command'.pending
                   /\ capture_command'.result # None
                   /\ Val(capture_command'.result).status = "timeout"
                   /\ capture_command'.result_timestamp = now]_vars
    /\ [][(~capture_command.pending /\ poll_command)
                => /\ response'.body = [status |-> "no_command"]
                   /\ ~capture_command'.pending]_vars
    /\ [][(~capture_command.pending /\ capture_command'.pending)
                => /\ response'.op = "request_capture"
                   /\ response'.code = 200]_vars

\* C2 witness: a poll made after the one that timed the command out has answered
\* no_command, the timeout result still in the slot
C2_Witness ==
    /\ response.op = "poll_command"
    /\ response.body.status = "no_command"
    /\ ~capture_command.pending
    /\ capture_command.result # None
    /\ Val(capture_command.result).status = "timeout"
    /\ capture_command.result_timestamp - capture_command.timestamp >= 30
    /\ now > capture_command.result_timestamp

\* C3: GET /api/command/poll answers capture, with the stored mode and student name,
\* exactly when the slot is pending and now - timestamp < 30 (strictly); in every
\* other state its answer is no_command.
C3_PollValidity ==
    [][poll_command =>
        IF capture_command.pending /\ now - capture_command.timestamp < 30
        THEN response'.body = [status |-> "capture", mode |-> capture_command.mode,
                               student_name |-> capture_command.student_name]
        ELSE response'.body = [status |-> "no_command"]]_vars

\* C3 witness: a command polled for the first time at the age of exactly 30 s was
\* answered no_command and timed out
C3_Witness ==
    /\ response.op = "poll_command"
    /\ response.body.status = "no_command"
    /\ capture_command.result # None
    /\ Val(capture_command.result).status = "timeout"
    /\ capture_command.result_timestamp = now
    /\ now - capture_command.timestamp = 30

\* C4: GET /api/command/result answers the stored result exactly when the slot holds a
\* result and now - result_timestamp < 60; otherwise it answers waiting with the
\* slot's pending flag; it changes nothing in the slot.
C4_ResultValidity ==
    [][get_capture_result =>
        /\ IF capture_command.result # None /\ now - capture_command.result_timestamp < 60
           THEN response'.body = Val(capture_command.result)
           ELSE response'.body = [status |-> "waiting", pending |-> capture_command.pending]
        /\ capture_command' = capture_command]_vars

\* C4 witness: a result aged exactly 60 s, still in the slot, was answered waiting
C4_Witness ==
    /\ response.op = "get_capture_result"
    /\ response.body.status = "waiting"
    /\ capture_command.result # None
    /\ now - capture_command.result_timestamp = 60

\* C7: POST /api/command/clear leaves both slots at their defaults whatever they held;
\* right after it GET /api/command/poll answers no_command and
\* GET /api/command/result answers waiting with pending false; and a second clear
\* right after the first changes nothing at all.
C7_ClearResets ==
    /\ [][clear_command =>
            /\ ~capture_command'.pending
            /\ capture_command'.mode = None
            /\ capture_command'.student_name = None
            /\ capture_command'.year_level = None
            /\ capture_command'.guardian_name = None
            /\ capture_command'.guardian_email = None
            /\ capture_command'.timestamp = 0
            /\ capture_command'.result = None
            /\ capture_command'.result_timestamp = 0]_vars
    /\ [][(response.op = "clear_command" /\ poll_command)
            => response'.body = [status |-> "no_command"]]_vars
    /\ [][(response.op = "clear_command" /\ get_capture_result)
            => response'.body = [status |-> "waiting", pending |-> FALSE]]_vars
    /\ [][(response.op = "clear_command" /\ clear_command) => UNCHANGED vars]_vars

\* C7 witness: the slots are at their defaults after a clear made once time has passed
C7_Witness ==
    /\ response.op = "clear_command"
    /\ capture_command = DefaultCommand
    /\ now > StartTime

\* C8: POST /api/command/capture with mode register and an empty or whitespace-only
\* name is answered 400 and leaves the command slot and the result slot as they were.
C8_BlankRegisterRejected ==
    [][\A name \in BlankNames, meta \in RawMeta :
            request_capture("register", name, meta)
                => /\ response'.code = 400
                   /\ response'.body.status = "error"
                   /\ capture_command' = capture_command]_vars

\* C8 witness: a register command with a blank name was refused while a logout
\* command was pending
C8_Witness ==
    /\ response.op = "request_capture"
    /\ response.code = 400
    /\ capture_command.pending
    /\ capture_command.mode = Some("logout")

----------------------------------------------------------------------------
(* Capture submissions and the result slot *)

\* a step of POST /api/recognize, whatever the request carried: the step leaves the
\* answer of /api/recognize as the last one, and it is neither the clock's (recognize
\* leaves now alone) nor a notification thread's (recognize ends no thread)
RecognizeStep ==
    /\ response'.op = "recognize"
    /\ now' = now
    /\ email_threads \subseteq email_threads'

\* C5: every exit of POST /api/recognize stores the body it answers as the one result
\* of the slot, stamps it now and leaves pending false; GET /api/command/result
\* answers the stored result while it is younger than 60 s; and once a result is
\* stored and pending is false, the result slot changes only by a successful
\* POST /api/command/capture, a POST /api/command/clear or another submission.
C5_SubmissionPublishes ==
    /\ [][RecognizeStep =>
            /\ capture_command'.result = Some(response'.body)
            /\ capture_command'.result_timestamp = now
            /\ ~capture_command'.pending]_vars
    /\ [][(capture_command.result # None /\ now - capture_command.result_timestamp < 60
                /\ get_capture_result)
            => /\ response'.body = Val(capture_command.result)
               /\ capture_command' = capture_command]_vars
    /\ [][(~capture_command.pending /\ capture_command.result # None
                /\ <<capture_command.result, capture_command.result_timestamp>>' #
                   <<capture_command.result, capture_command.result_timestamp>>)
            => \/ response'.op = "request_capture" /\ response'.code = 200
               \/ response'.op = "clear_command"
               \/ response'.op = "recognize"]_vars

\* C5 witness: the success body of a submission, still in the slot, was answered by
\* GET /api/command/result some time after the submission
C5_Witness ==
    /\ response.op = "get_capture_result"
    /\ response.body.status = "success"
    /\ capture_command.result = Some(response.body)
    /\ ~capture_command.pending
    /\ now > capture_command.result_timestamp
    /\ Len(attendance_logs) >= 1

----------------------------------------------------------------------------
(* The web fallback and registration *)

\* a step of /api/web/attendance, /api/web/logout or /api/web/register: the step leaves
\* the answer of one of them as the last one, and it is neither the clock's nor a
\* notification thread's
WebStep ==
    /\ response'.op \in {"web_attendance", "web_logout", "web_register"}
    /\ now' = now
    /\ email_threads \subseteq email_threads'

----------------------------------------------------------------------------
(* Duplicate suppression *)

\* a step of a recognition for attendance: /api/recognize, /api/web/attendance or
\* /api/web/logout
AttendanceStep ==
    /\ response'.op \in {"recognize", "web_attendance", "web_logout"}
    /\ now' = now
    /\ email_threads \subseteq email_threads'

\* C10 as stated: a recognition of a student for whom a record of the same log type
\* was written less than 5 minutes ago (the record's instant being its local
\* timestamp less the server's offset) resolves to duplicate and adds no record.
C10_SecondIsDuplicate ==
    [][(/\ AttendanceStep
        /\ response'.body.status \in {"success", "duplicate"}
        /\ \E i \in 1..Len(attendance_logs) :
                /\ attendance_logs[i].student_name = response'.body.name
                /\ attendance_logs[i].log_type = response'.body.log_type
                /\ now - (attendance_logs[i].timestamp - tz_offset)
                        < DUPLICATE_THRESHOLD_MINUTES * 60)
        => /\ response'.body.status = "duplicate"
           /\ attendance_logs' = attendance_logs]_vars

----------------------------------------------------------------------------
(* Attendance over a long time: one registered student, in every timezone of
   TzOffsets, the clock moving six minutes at a time *)

NextGap ==
    \/ LongTick
    \/ \E upload \in StudentUploads :
            register_student(<<"a">>, CHOOSE meta \in RawMeta : meta.year_level = <<>>,
                             upload, "none")
    \/ \E capture_mode \in {"attendance", "logout"}, upload \in StudentUploads :
            recognize(capture_mode, <<>>, upload, "none")
    \/ \E upload \in StudentUploads : web_attendance(upload, "none")
    \/ \E upload \in StudentUploads : web_logout(upload, "none")

SpecGap == InitAttendance /\ [][NextGap]_vars

\* C11 as stated: a recognition of a student whose records of the same log type were
\* all written six minutes ago or earlier (a record's instant being its local
\* timestamp less the server's offset) resolves to success and adds a record.
C11_SuccessAfterSixMinutes ==
    [][(/\ AttendanceStep
        /\ response'.body.status \in {"success", "duplicate"}
        /\ \E i \in 1..Len(attendance_logs) :
                /\ attendance_logs[i].student_name = response'.body.name
                /\ attendance_logs[i].log_type = response'.body.log_type
        /\ \A i \in 1..Len(attendance_logs) :
                (/\ attendance_logs[i].student_name = response'.body.name
                 /\ attendance_logs[i].log_type = response'.body.log_type)
                    => now - (attendance_logs[i].timestamp - tz_offset) >= 6 * 60)
        => /\ response'.body.status = "success"
           /\ Len(attendance_logs') = Len(attendance_logs) + 1]_vars

----------------------------------------------------------------------------
(* Two registered students in front of the camera, in every timezone of TzOffsets *)

\* the images that match their student
PairUploads == {u \in Uploads : u.face # None /\ u.distance = TOLERANCE}

NextPair ==
    \/ \E upload \in {u \in PairUploads : u.face = Some("p1")} :
            register_student(<<"a">>, CHOOSE meta \in RawMeta : meta.year_level = <<>>,
                             upload, "none")
    \/ \E upload \in {u \in PairUploads : u.face = Some("p2")} :
            register_student(<<" ", "b", " ", "c", " ">>,
                             CHOOSE meta \in RawMeta : meta.year_level = <<>>, upload, "none")
    \/ \E capture_mode \in {"attendance", "logout"}, upload \in PairUploads :
            recognize(capture_mode, <<>>, upload, "none")
    \/ \E upload \in PairUploads : web_attendance(upload, "none")
    \/ \E upload \in PairUploads : web_logout(upload, "none")

SpecPair == InitAttendance /\ [][NextPair]_vars

\* the rows of this student and log type
RecordsOf(logs, student_name, log_type) ==
    {i \in 1..Len(logs) : logs[i].student_name = student_name /\ logs[i].log_type = log_type}

\* C12: a recognition that matches a student for whom no record of the same log type
\* exists resolves to success, whatever records of the other log type or of other
\* students exist and however recent they are, and its record is persisted.
C12_KeyedOnStudentAndType ==
    [][(/\ AttendanceStep
        /\ response'.body.status \in {"success", "duplicate"}
        /\ RecordsOf(attendance_logs, response'.body.name, response'.body.log_type) = {})
        => /\ response'.body.status = "success"
           /\ Len(attendance_logs') = Len(attendance_logs) + 1
           /\ SubSeq(attendance_logs', 1, Len(attendance_logs)) = attendance_logs
           /\ attendance_logs'[Len(attendance_logs')].student_name = response'.body.name
           /\ attendance_logs'[Len(attendance_logs')].log_type = response'.body.log_type]_vars

\* C12 witness: an IN and an OUT of the same student written at the same moment, the
\* second one just answered success
C12_Witness ==
    /\ Len(attendance_logs) = 2
    /\ attendance_logs[1].student_name = attendance_logs[2].student_name
    /\ attendance_logs[1].log_type # attendance_logs[2].log_type
    /\ attendance_logs[1].timestamp = attendance_logs[2].timestamp
    /\ response.body.status = "success"
    /\ response.body.record_id = 2

----------------------------------------------------------------------------
(* Concurrent captures: one registered student, several attendance requests inside
   recognize at once; the server at UTC, where the duplicate window is the one the
   code means *)

InitThreads == Init /\ tz_offset = 0 /\ ~email_enabled

NextThreads ==
    \/ Tick(COMMAND_TTL)
    \/ \E upload \in {u \in StudentUploads : u.distance = TOLERANCE} :
            register_student(<<"a">>, CHOOSE meta \in RawMeta : meta.year_level = <<>>,
                             upload, "none")
    \/ \E capture_mode \in {"attendance", "logout"}, upload \in StudentUploads :
            recognize_begin(capture_mode, upload)
    \/ \E r \in requests : recognize_check(r)
    \/ \E r \in requests : recognize_log(r)

SpecThreads == InitThreads /\ [][NextThreads]_vars

\* C13 as stated: whatever the interleaving of the capture attempts, no two records of
\* the same student and log type lie less than 5 minutes apart.
C13_OneRecordPerWindow ==
    \A i, j \in 1..Len(attendance_logs) :
        (/\ i < j
         /\ attendance_logs[i].student_name = attendance_logs[j].student_name
         /\ attendance_logs[i].log_type = attendance_logs[j].log_type)
            => attendance_logs[j].timestamp - attendance_logs[i].timestamp
                    >= DUPLICATE_THRESHOLD_MINUTES * 60

----------------------------------------------------------------------------
(* Concurrent command-store requests: polls inside poll_command while commands are
   issued and the result is read *)

InitPolls == Init /\ tz_offset = 0 /\ email_enabled

NextPolls ==
    \/ Tick(TickStep)
    \/ \E mode \in {"attendance", "logout"} :
            request_capture(mode, <<>>, CHOOSE meta \in RawMeta : meta.year_level = <<>>)
    \/ get_capture_result
    \/ poll_begin
    \/ \E r \in requests : poll_expired(r)
    \/ \E r \in requests : poll_pending(r)
    \/ \E r \in requests : poll_result(r)
    \/ \E r \in requests : poll_result_timestamp(r)

SpecPolls == InitPolls /\ [][NextPolls]_vars

\* C14 as stated: while a poll is inside its expiry transition, pending already
\* cleared and the timeout result not yet readable, no GET /api/command/result is
\* answered waiting with pending false.
C14_ExpiryIsAtomic ==
    [][(/\ get_capture_result
        /\ \E r \in requests : r.op = "poll_command" /\ r.pc \in {"result", "result_timestamp"})
        => response'.body # [status |-> "waiting", pending |-> FALSE]]_vars

\* C15 as stated: the slot is never not pending with a timeout result while its
\* command was issued less than 30 s ago.
C15_NoTimeoutOfFreshCommand ==
    ~ (/\ ~capture_command.pending
       /\ capture_command.result # None
       /\ Val(capture_command.result).status = "timeout"
       /\ now - capture_command.timestamp < COMMAND_TTL)

----------------------------------------------------------------------------
(* Images without a face: every endpoint that takes an image, given one in which no
   face is found, with one student registered or not *)

\* image bytes in which face_locations finds nothing
NoFaceImage == CHOOSE u \in Uploads : u.kind = "image" /\ u.face = None

InitNoFace == Init /\ tz_offset = 0 /\ email_enabled

NextNoFace ==
    \/ \E meta \in RawMeta, upload \in {u \in StudentUploads : u.distance = TOLERANCE} :
            register_student(<<"a">>, meta, upload, "none")
    \/ \E meta \in RawMeta : request_capture("register", <<"a">>, meta)
    \/ clear_command
    \/ \E capture_mode \in HeaderModes, header \in {<<>>, <<"a">>},
          fault \in RegisterFaults \cup AttendanceFaults \cup SaveFaults :
            recognize(capture_mode, header, NoFaceImage, fault)
    \/ \E meta \in RawMeta, fault \in RegisterFaults :
            register_student(<<"a">>, meta, NoFaceImage, fault)
    \/ \E transport \in Transports, meta \in RawMeta, fault \in RegisterFaults \cup SaveFaults :
            web_register(transport, <<"a">>, meta, NoFaceImage, fault)
    \/ \E fault \in AttendanceFaults \cup SaveFaults : web_attendance(NoFaceImage, fault)
    \/ \E fault \in AttendanceFaults \cup SaveFaults : web_logout(NoFaceImage, fault)

SpecNoFace == InitNoFace /\ [][NextNoFace]_vars

\* what a request with an image without a face must leave: no success and no
\* registration, and the gallery, both tables and the notifications as they were
NoFaceLeaves ==
    /\ response'.body.status \notin {"success", "registered"}
    /\ UNCHANGED <<known_faces_dir, known_faces, students, attendance_logs, email_threads>>

\* C16: an image in which no face is found never resolves to success or registered
\* and changes neither the gallery, the students, the attendance records nor the
\* notifications; when the image is saved without a failure of the file system the
\* attendance and logout paths answer unknown and every registration path answers an
\* error with 400.
C16_NoFaceNeverSucceeds ==
    /\ [][response'.op = "recognize" =>
            \A capture_mode \in HeaderModes, header \in {<<>>, <<"a">>},
               fault \in RegisterFaults \cup AttendanceFaults \cup SaveFaults :
                recognize(capture_mode, header, NoFaceImage, fault)
                    => /\ NoFaceLeaves
                       /\ fault # "save_uploaded_image" =>
                            IF capture_mode = "register"
                            THEN response'.code = 400 /\ response'.body.status = "error"
                            ELSE response'.body.status = "unknown"]_vars
    /\ [][response'.op = "register_student" =>
            \A name \in RawNames, meta \in RawMeta, fault \in RegisterFaults :
                register_student(name, meta, NoFaceImage, fault)
                    => /\ NoFaceLeaves
                       /\ response'.code = 400 /\ response'.body.status = "error"]_vars
    /\ [][response'.op = "web_register" =>
            \A transport \in Transports, name \in RawNames, meta \in RawMeta,
               fault \in RegisterFaults \cup SaveFaults :
                web_register(transport, name, meta, NoFaceImage, fault)
                    => /\ NoFaceLeaves
                       /\ fault # "save_uploaded_image" =>
                            response'.code = 400 /\ response'.body.status = "error"]_vars
    /\ [][response'.op \in {"web_attendance", "web_logout"} =>
            \A fault \in AttendanceFaults \cup SaveFaults :
                (web_attendance(NoFaceImage, fault) \/ web_logout(NoFaceImage, fault))
                    => /\ NoFaceLeaves
                       /\ fault # "save_uploaded_image" => response'.body.status = "unknown"]_vars

\* C16 witness: with a student in the gallery, a logout capture without a face was
\* answered unknown and no record exists
C16_Witness ==
    /\ response.op = "web_logout"
    /\ response.body.status = "unknown"
    /\ known_faces # <<>>
    /\ attendance_logs = <<>>

----------------------------------------------------------------------------
(* The matcher: probes of the one student at distances around the tolerance, of a
   stranger and without a face, against the gallery empty and with the student in
   it; the server at UTC *)

\* the distances of a probe to the encoding of the same person, in hundredths
ProbeDistances == {0, 35, TOLERANCE, TOLERANCE + 1, 100}

Probe(distance) == [kind |-> "image", face |-> Some("p1"), distance |-> distance]

MatchUploads ==
    {Probe(d) : d \in ProbeDistances}
        \cup {NoFaceImage, [kind |-> "image", face |-> Some("p2"), distance |-> 0]}

InitMatch == Init /\ tz_offset = 0 /\ ~email_enabled

NextMatch ==
    \/ register_student(<<"a">>, CHOOSE meta \in RawMeta : meta.year_level = <<>>,
                        Probe(0), "none")
    \/ \E capture_mode \in {"attendance", "logout"}, upload \in MatchUploads,
          fault \in AttendanceFaults \cup SaveFaults :
            recognize(capture_mode, <<>>, upload, fault)
    \/ \E upload \in MatchUploads, fault \in AttendanceFaults \cup SaveFaults :
            web_attendance(upload, fault)
    \/ \E upload \in MatchUploads, fault \in AttendanceFaults \cup SaveFaults :
            web_logout(upload, fault)

SpecMatch == InitMatch /\ [][NextMatch]_vars

\* a recognition for attendance of this image in which no call fails
Recognition(upload) ==
    \/ \E capture_mode \in {"attendance", "logout"} : recognize(capture_mode, <<>>, upload, "none")
    \/ web_attendance(upload, "none")
    \/ web_logout(upload, "none")

\* C17: with the student in the gallery, a probe at a distance up to 0.60, 0.60
\* included, is accepted (success, or duplicate of an earlier success), a probe at
\* any greater distance is answered unknown, and a success reports the confidence
\* 1 - distance, which lies between 0 and 1.
C17_ThresholdInclusive ==
    [][(known_faces # <<>> /\ AttendanceStep) =>
        \A d \in ProbeDistances :
            Recognition(Probe(d)) =>
                /\ d <= 60 => response'.body.status \in {"success", "duplicate"}
                /\ d > 60 => response'.body.status = "unknown"
                /\ response'.body.status = "success" =>
                        /\ response'.body.confidence = 100 - d
                        /\ response'.body.confidence >= 0
                        /\ response'.body.confidence <= 100
                        /\ attendance_logs'[Len(attendance_logs')].confidence = 100 - d]_vars

\* C17 witness: a probe at the distance 0.60 exactly was accepted, confidence 0.40
C17_Witness ==
    /\ Len(attendance_logs) = 1
    /\ attendance_logs[1].confidence = 40
    /\ "confidence" \in DOMAIN response.body
    /\ response.body.status = "success"
    /\ response.body.confidence = 40

\* C18: with the gallery empty, a recognition for attendance of any image, of a known
\* person or not, in which the image is saved answers unknown with 200 and writes no
\* record; with the image not saved it is the error of the file system that is
\* answered, and no record is written either.
C18_EmptyGalleryUnknown ==
    [][(known_faces = <<>> /\ AttendanceStep) =>
        \A upload \in MatchUploads, fault \in AttendanceFaults \cup SaveFaults :
            (\/ \E capture_mode \in {"attendance", "logout"} :
                    recognize(capture_mode, <<>>, upload, fault)
             \/ web_attendance(upload, fault)
             \/ web_logout(upload, fault))
                => /\ attendance_logs' = attendance_logs
                   /\ fault # "save_uploaded_image" =>
                        /\ response'.code = 200
                        /\ response'.body = [status |-> "unknown", message |-> "Face not recognized"]]_vars

\* C18 witness: a logout capture against the empty gallery was answered unknown
C18_Witness ==
    /\ known_faces = <<>>
    /\ known_faces_dir = {}
    /\ response.op = "recognize"
    /\ response.body.status = "unknown"
    /\ attendance_logs = <<>>

\* C19: a record written by a capture in attendance mode, on /api/recognize or on
\* /api/web/attendance, has the log type IN, one written in logout mode, on
\* /api/recognize or on /api/web/logout, has the log type OUT, and a resolution of
\* success reports the log type and the id of the record it wrote.
C19_LogTypeFollowsMode ==
    [][(AttendanceStep /\ Len(attendance_logs') = Len(attendance_logs) + 1) =>
        LET record == attendance_logs'[Len(attendance_logs')]
        IN  /\ response'.op = "web_attendance" => record.log_type = "IN"
            /\ response'.op = "web_logout" => record.log_type = "OUT"
            /\ response'.op = "recognize" =>
                    \A upload \in MatchUploads, fault \in AttendanceFaults \cup SaveFaults :
                        /\ recognize("attendance", <<>>, upload, fault) => record.log_type = "IN"
                        /\ recognize("logout", <<>>, upload, fault) => record.log_type = "OUT"
            /\ record.log_type \in {"IN", "OUT"}
            /\ response'.body.status = "success" =>
                    /\ response'.body.log_type = record.log_type
                    /\ response'.body.record_id = Len(attendance_logs')
                    /\ response'.body.name = record.student_name]_vars

\* C19 witness: an attendance record and then a logout record were written, the
\* second by /api/web/logout, which reported OUT
C19_Witness ==
    /\ Len(attendance_logs) = 2
    /\ attendance_logs[1].log_type = "IN"
    /\ attendance_logs[2].log_type = "OUT"
    /\ response.op = "web_logout"
    /\ response.body.status = "success"
    /\ response.body.log_type = "OUT"

\* the results a capture produces: the one in the slot of the command store and the
\* body a capture endpoint or the result poll answers with
CaptureResults ==
    (IF capture_command.result = None THEN {} ELSE {Val(capture_command.result)})
        \cup (IF response.op \in {"recognize", "get_capture_result"} /\ response.body.status # "waiting"
              THEN {response.body} ELSE {})

\* C20 as stated: a result carries a log type exactly when its status is success
C20_LogTypeIffSuccess ==
    \A r \in CaptureResults : ("log_type" \in DOMAIN r) <=> (r.status = "success")

\* C20: a result carries a log type, IN or OUT, exactly when its status is success or
\* duplicate; results with status unknown, error, timeout or registered carry none.
C20_LogTypeIffMatched ==
    \A r \in CaptureResults :
        /\ ("log_type" \in DOMAIN r) <=> (r.status \in {"success", "duplicate"})
        /\ "log_type" \in DOMAIN r => r.log_type \in {"IN", "OUT"}
        /\ r.status \in {"success", "duplicate", "unknown", "error", "timeout", "registered"}

\* C20 witness: the slot holds a duplicate result, which names its log type
C20_Witness ==
    /\ capture_command.result # None
    /\ Val(capture_command.result).status = "duplicate"
    /\ "log_type" \in DOMAIN Val(capture_command.result)
    /\ response.op = "get_capture_result"
    /\ response.body = Val(capture_command.result)

\* C21: a capture attempt reports a record id exactly when it wrote a new attendance
\* record, and the id is that record's, also when a step after the insert fails.
C21_RecordIdIffPersisted ==
    [][AttendanceStep =>
        /\ ("record_id" \in DOMAIN response'.body)
                <=> (Len(attendance_logs') = Len(attendance_logs) + 1)
        /\ "record_id" \in DOMAIN response'.body =>
                response'.body.record_id = attendance_logs'[Len(attendance_logs')].id]_vars

----------------------------------------------------------------------------
(* Labels: registrations of one person under a name with a space and under a name
   with an underscore, on the three registration paths, and recognitions of that
   person; the server at UTC, email enabled *)

\* names as typed into the form or sent in the X-Student-Name header
LabelNames == { <<"b", " ", "c">>, <<"b", "_", "c">> }

\* an image of the person, and one without a face
LabelUploads == { Probe(0), NoFaceImage }

GuardianMeta == CHOOSE meta \in RawMeta : meta.guardian_email # <<>>

InitLabels == Init /\ tz_offset = 0 /\ email_enabled

NextLabels ==
    \/ \E name \in LabelNames, upload \in LabelUploads, fault \in RegisterFaults :
            recognize("register", name, upload, fault)
    \/ \E name \in LabelNames, upload \in LabelUploads :
            register_student(name, GuardianMeta, upload, "none")
    \/ \E name \in LabelNames, upload \in LabelUploads :
            web_register("json", name, GuardianMeta, upload, "none")
    \/ \E upload \in LabelUploads : recognize("attendance", <<>>, upload, "none")
    \/ \E upload \in LabelUploads : web_logout(upload, "none")
    \/ get_capture_result

SpecLabels == InitLabels /\ [][NextLabels]_vars

\* the labels of the gallery recognition matches against
known_names(known) == {known[i].name : i \in 1..Len(known)}

\* C22: when a registration has answered or published that N is registered, the
\* gallery that recognition uses contains N.
C22_RegisteredIsInGallery ==
    [][(/\ response'.op \in {"recognize", "register_student", "web_register"}
        /\ response'.code = 200
        /\ "name" \in DOMAIN response'.body
        /\ response'.body.status \in {"registered", "success"}
        /\ "log_type" \notin DOMAIN response'.body)
            => response'.body.name \in known_names(known_faces')]_vars

\* C23: a registration of a student who has a row never replaces a year level,
\* guardian name or guardian email that is stored and not empty by None or by the
\* empty string.
C23_NoOverwriteByEmpty ==
    [][\A before \in students, after \in students' :
            before.name = after.name =>
                /\ Truthy(before.year_level) => Truthy(after.year_level)
                /\ Truthy(before.guardian_name) => Truthy(after.guardian_name)
                /\ Truthy(before.guardian_email) => Truthy(after.guardian_email)]_vars

----------------------------------------------------------------------------
(* Notifications: email enabled or not, the student registered with or without a
   guardian email or recognised from a gallery file without a row, the lookup of
   the student failing or not, and the sender threads running to their end; the
   server at UTC *)

InitNotify == Init /\ tz_offset = 0

NextNotify ==
    \/ \E meta \in RawMeta : register_student(<<"a">>, meta, Probe(0), "none")
    \/ \E header \in {<<>>, <<"a">>}, fault \in RegisterFaults :
            recognize("register", header, Probe(0), fault)
    \/ \E capture_mode \in {"attendance", "logout"}, upload \in {Probe(0), NoFaceImage},
          fault \in {"none", "get_student"} :
            recognize(capture_mode, <<>>, upload, fault)
    \/ \E fault \in {"none", "get_student"} : web_attendance(Probe(0), fault)
    \/ send_email_thread

SpecNotify == InitNotify /\ [][NextNotify]_vars

\* the notification thread started for this record is among these
HandedOff(threads, record_id) == \E t \in threads : t.record_id = record_id

\* send_guardian_email goes as far as starting the sender for this student
CanNotify(student_name) ==
    /\ email_enabled
    /\ get_student(students, student_name) # None
    /\ Truthy(Val(get_student(students, student_name)).guardian_email)

\* C24: a record is marked notified only in the step that starts the sender thread
\* for it, which takes email enabled, a row for the matched name and a guardian
\* email in it; when one of these is missing no thread is started, the record stays
\* unmarked and the resolution is success all the same; a mark is never taken back,
\* whatever becomes of the delivery.
C24_NotifiedOnlyAfterHandOff ==
    /\ [][\A i \in 1..Len(attendance_logs') :
            (attendance_logs'[i].email_sent
                /\ (i > Len(attendance_logs) \/ ~attendance_logs[i].email_sent))
                => /\ HandedOff(email_threads' \ email_threads, i)
                   /\ CanNotify(attendance_logs'[i].student_name)]_vars
    /\ [][(/\ AttendanceStep
           /\ Len(attendance_logs') = Len(attendance_logs) + 1
           /\ ~CanNotify(attendance_logs'[Len(attendance_logs')].student_name))
            => /\ email_threads' = email_threads
               /\ ~attendance_logs'[Len(attendance_logs')].email_sent
               /\ Recognition(Probe(0)) => response'.body.status = "success"
               /\ ~email_enabled => response'.body.status = "success"]_vars
    /\ [][\A i \in 1..Len(attendance_logs) :
            attendance_logs[i].email_sent => attendance_logs'[i].email_sent]_vars

\* C24 witness: a record is marked notified and its sender thread has ended, next to
\* a record of a time when the student had no guardian email, which is not marked
C24_Witness ==
    /\ Len(attendance_logs) = 2
    /\ ~attendance_logs[1].email_sent
    /\ attendance_logs[2].email_sent
    /\ email_threads = {}
    /\ email_enabled

\* C25: a sender thread is started only by the step that appends an attendance
\* record and answers success, for that record and once; a step answering
\* duplicate, unknown, registered or an error starts none, and nothing starts a
\* thread for a record again after its thread has ended.
C25_HandOffOncePerRecord ==
    /\ [][email_threads' \ email_threads # {} =>
            /\ AttendanceStep
            /\ Len(attendance_logs') = Len(attendance_logs) + 1
            /\ response'.body.status = "success"
            /\ Cardinality(email_threads' \ email_threads) = 1
            /\ \A t \in email_threads' \ email_threads : t.record_id = Len(attendance_logs')]_vars
    /\ [][(/\ response'.op \in {"recognize", "web_attendance", "register_student"}
           /\ now' = now
           /\ response'.body.status \in {"duplicate", "unknown", "registered", "error"})
            => email_threads' \subseteq email_threads]_vars
    /\ [][Len(attendance_logs') = Len(attendance_logs) => email_threads' \subseteq email_threads]_vars

\* C25 witness: the thread of the first record has ended, and the recognition after
\* it was answered duplicate with no thread started
C25_Witness ==
    /\ email_enabled
    /\ Len(attendance_logs) = 1
    /\ attendance_logs[1].email_sent
    /\ email_threads = {}
    /\ response.body.status = "duplicate"

\* C26: the step that starts a sender thread is the step that answers and publishes
\* the success, with the thread still running after it, and the end of a thread,
\* the mail sent or not, changes neither the published result, the response nor a
\* stored row.
C26_DeliveryDecoupled ==
    /\ [][(AttendanceStep /\ email_threads' \ email_threads # {}) =>
            /\ response'.code = 200
            /\ response'.body.status = "success"
            /\ HandedOff(email_threads', response'.body.record_id)
            /\ response'.op = "recognize" =>
                    /\ capture_command'.result = Some(response'.body)
                    /\ ~capture_command'.pending]_vars
    /\ [][(email_threads' \subseteq email_threads /\ email_threads' # email_threads) =>
            UNCHANGED <<capture_command, response, attendance_logs, students, known_faces>>]_vars

\* C26 witness: the second capture has published its success while the sender
\* threads of both records are still running
C26_Witness ==
    /\ Len(attendance_logs) = 2
    /\ HandedOff(email_threads, 1)
    /\ HandedOff(email_threads, 2)
    /\ response.op = "recognize"
    /\ response.body.status = "success"
    /\ response.body.record_id = 2
    /\ capture_command.result = Some(response.body)

----------------------------------------------------------------------------
(* Failures: captures of a registered student in which one call fails, with a
   command in the slot or not; the server at UTC, email enabled *)

InitFailures == Init /\ tz_offset = 0 /\ email_enabled

NextFailures ==
    \/ Tick(COMMAND_TTL)
    \/ \E mode \in {"attendance", "logout"} : request_capture(mode, <<>>, GuardianMeta)
    \/ \E name \in {<<>>, <<"a">>} : request_capture("register", name, GuardianMeta)
    \/ request_capture_undecodable
    \/ poll_command
    \/ get_capture_result
    \/ clear_command
    \/ \E upload \in {u \in Uploads : u.kind # "image"} :
            recognize("attendance", <<>>, upload, "none")
    \/ recognize("register", <<>>, NoFaceImage, "none")
    \/ \E fault \in RegisterFaults \cup SaveFaults : recognize("register", <<>>, Probe(0), fault)
    \/ \E capture_mode \in {"attendance", "logout"},
          fault \in AttendanceFaults \cup SaveFaults \cup MatcherFaults :
            recognize(capture_mode, <<>>, Probe(0), fault)

SpecFailures == InitFailures /\ [][NextFailures]_vars

\* C27: a capture of a student of the gallery in which saving the image, the
\* matcher or the duplicate check fails is answered error with a message and 500,
\* and that result is in the slot with pending cleared.
C27_FailureResolvesToError ==
    [][(response'.op = "recognize" /\ known_faces # <<>>) =>
        \A capture_mode \in {"attendance", "logout"},
           fault \in SaveFaults \cup MatcherFaults \cup {"check_duplicate_attendance"} :
            recognize(capture_mode, <<>>, Probe(0), fault) =>
                /\ response'.code = 500
                /\ response'.body.status = "error"
                /\ "message" \in DOMAIN response'.body
                /\ capture_command'.result = Some(response'.body)
                /\ ~capture_command'.pending]_vars

----------------------------------------------------------------------------
(* Liveness of the command store: the clock advances and the camera keeps polling;
   a command is issued only while the clock of the model can still run past its
   expiry *)

InitLive == Init /\ tz_offset = 0 /\ ~email_enabled

\* a command issued while the clock can still reach its expiry
request_capture_in_time(mode) ==
    /\ now + COMMAND_TTL <= StartTime + Horizon
    /\ request_capture(mode, <<"a">>, GuardianMeta)

NextLive ==
    \/ Tick(TickStep)
    \/ \E mode \in {"attendance", "register"} : request_capture_in_time(mode)
    \/ poll_command
    \/ get_capture_result
    \/ clear_command
    \/ \E capture_mode \in {"attendance", "register"}, upload \in {Probe(0), NoFaceImage} :
            recognize(capture_mode, <<>>, upload, "none")

SpecLive ==
    /\ InitLive
    /\ [][NextLive]_vars
    /\ WF_vars(Tick(TickStep))
    /\ WF_vars(poll_command)

\* C28: with the clock advancing and the camera polling, a pending command
\* eventually stops being pending, by a published result, by the timeout of a poll
\* or by a clear.
C28_PendingEventuallyCleared ==
    capture_command.pending ~> ~capture_command.pending

\* C28 witness: nothing was submitted for the command; a poll timed it out and the
\* result poll answers the timeout, pending cleared
C28_Witness ==
    /\ ~capture_command.pending
    /\ capture_command.result = Some([status |-> "timeout", message |-> "Capture timed out"])
    /\ capture_command.mode = Some("register")
    /\ response.op = "get_capture_result"
    /\ response.body.status = "timeout"

\* the messages of the errors a caller can fix: no image, no name, no face to register
InputErrors ==
    { "No file selected", "No image data received", "Student name required for registration",
      "Student name is required for registration", "Could not detect face in the image" }

\* C29: every response of the command endpoints and of /api/recognize has a status;
\* success, duplicate, unknown, registered, capture, no_command, waiting and timeout
\* are answered 200; an error the handler itself raises is answered 400 when it is a
\* missing image, name or face, and 500 when it comes from the except branch; a
\* capture without an image, or a registration without a name, is answered 400.
C29_CodeFollowsOutcome ==
    /\ [](response.op \in {"request_capture", "poll_command", "get_capture_result",
                           "clear_command", "recognize"} =>
            /\ "status" \in DOMAIN response.body
            /\ response.code \in {200, 400, 500}
            /\ response.body.status \in {"success", "duplicate", "unknown", "registered",
                                         "capture", "no_command", "waiting", "timeout"}
                    => response.code = 200
            /\ response.code = 400 =>
                    /\ response.body.status = "error"
                    /\ response.body.message \in InputErrors
            /\ response.code = 500 =>
                    /\ response.body.status = "error"
                    /\ response.body.message = "exception"
            /\ (response.body.status = "error" /\ response.op # "get_capture_result")
                    => response.code \in {400, 500})
    /\ [][response'.op = "recognize" =>
            \A upload \in {u \in Uploads : u.kind # "image"} :
                recognize("attendance", <<>>, upload, "none") => response'.code = 400]_vars
    /\ [][response'.op = "request_capture" =>
            (request_capture("register", <<>>, GuardianMeta) => response'.code = 400)]_vars

\* C29 witness: a registration capture without a name was answered 400 and published
C29_Witness ==
    /\ response.op = "recognize"
    /\ response.code = 400
    /\ response.body = ErrorBody("Student name required for registration")
    /\ capture_command.result = Some(response.body)

\* C30: a pending command has the mode attendance, register or logout, and it has a
\* student name that is not empty exactly when its mode is register.
C30_PendingCommandWellFormed ==
    capture_command.pending =>
        /\ capture_command.mode \in {Some("attendance"), Some("register"), Some("logout")}
        /\ Truthy(capture_command.student_name) <=> (capture_command.mode = Some("register"))

----------------------------------------------------------------------------
(* The command store again: what the polls leave alone *)

\* C31: a successful POST /api/command/capture empties the result slot; while a
\* command is pending the slot has no result, so GET /api/command/result answers
\* waiting with pending true, until a capture publishes, a poll times the command
\* out or the slot is cleared.
C31_IssueResetsResult ==
    /\ [][(response'.op = "request_capture" /\ response'.code = 200 /\ now' = now
           /\ capture_command'.pending)
            => /\ capture_command'.result = None
               /\ capture_command'.result_timestamp = 0]_vars
    /\ [](capture_command.pending => capture_command.result = None)
    /\ [][(get_capture_result /\ capture_command.pending)
            => response'.body = [status |-> "waiting", pending |-> TRUE]]_vars
    /\ [][(capture_command.pending /\ capture_command.result = None
           /\ capture_command'.result # None)
            => \/ response'.op = "recognize"
               \/ /\ response'.op = "poll_command"
                  /\ Val(capture_command'.result).status = "timeout"]_vars

\* C31 witness: a command issued later than the start is pending, and the result poll
\* has answered waiting with pending true
C31_Witness ==
    /\ capture_command.pending
    /\ capture_command.result = None
    /\ capture_command.timestamp > StartTime
    /\ response.op = "get_capture_result"
    /\ response.body = [status |-> "waiting", pending |-> TRUE]

\* C32: GET /api/command/poll of a valid command and GET /api/command/result in any
\* state leave the slot as it is, so the next poll of the command poll answers the
\* same capture command.
C32_PollingDoesNotConsume ==
    /\ [][(poll_command /\ CommandValid(capture_command, now))
            => /\ capture_command' = capture_command
               /\ CommandValid(capture_command', now')
               /\ response'.body = [status |-> "capture", mode |-> capture_command'.mode,
                                    student_name |-> capture_command'.student_name]]_vars
    /\ [][get_capture_result => UNCHANGED <<capture_command, store>>]_vars

\* C32 witness: an attendance command, polled later than it was issued, was served
\* and is still pending
C32_Witness ==
    /\ response.op = "poll_command"
    /\ response.body.status = "capture"
    /\ response.body.mode = Some("attendance")
    /\ capture_command.pending
    /\ capture_command.mode = Some("attendance")
    /\ now - capture_command.timestamp = 2 * TickStep

\* C33: GET /api/command/poll of a slot that is not pending changes nothing in it:
\* the result a capture published stays, however old the command is.
C33_PublishedResultNotTimedOut ==
    [][(poll_command /\ ~capture_command.pending)
        => /\ capture_command' = capture_command
           /\ response'.body = [status |-> "no_command"]]_vars

\* C33 witness: the command is more than 30 s old, a capture has published its error
\* result, and a poll after that left it in the slot
C33_Witness ==
    /\ response.op = "poll_command"
    /\ response.body.status = "no_command"
    /\ ~capture_command.pending
    /\ capture_command.mode # None
    /\ capture_command.result # None
    /\ Val(capture_command.result).status = "error"
    /\ now - capture_command.timestamp > COMMAND_TTL
    /\ now > capture_command.result_timestamp

\* C34: GET /api/command/result never clears pending, also of a command older than
\* 30 s, for which it answers waiting with pending true; pending is cleared only by
\* a poll of the command poll, a capture or a clear.
C34_ResultPollNeverExpires ==
    /\ [][(get_capture_result /\ capture_command.pending)
            => /\ capture_command'.pending
               /\ capture_command'.result = None
               /\ response'.body.pending]_vars
    /\ [][(capture_command.pending /\ ~capture_command'.pending)
            => response'.op \in {"poll_command", "recognize", "clear_command"}]_vars

\* C34 witness: the result poll has answered waiting with pending true for a command
\* issued more than 30 s ago
C34_Witness ==
    /\ response.op = "get_capture_result"
    /\ response.body = [status |-> "waiting", pending |-> TRUE]
    /\ capture_command.pending
    /\ now - capture_command.timestamp > COMMAND_TTL

----------------------------------------------------------------------------
(* Captures against the slot: commands of every mode issued, left to expire or timed
   out by a poll, and captures of the registered student under every header mode;
   the server at UTC, email disabled *)

InitSlot == Init /\ tz_offset = 0 /\ ~email_enabled

NextSlot ==
    \/ Tick(COMMAND_TTL)
    \/ \E mode \in {"attendance", "logout"} : request_capture(mode, <<>>, GuardianMeta)
    \/ request_capture("register", <<"a">>, GuardianMeta)
    \/ poll_command
    \/ get_capture_result
    \/ \E capture_mode \in HeaderModes : recognize(capture_mode, <<>>, Probe(0), "none")

SpecSlot == InitSlot /\ [][NextSlot]_vars

\* C35: a capture is processed in every state of the slot; its result is written over
\* whatever result the slot holds, with pending cleared and the rest of the stored
\* command left as it is; a header mode other than register and logout is processed
\* as attendance and logs IN, logout logs OUT, whatever the mode of the stored command.
C35_SubmissionIgnoresSlot ==
    [][response'.op = "recognize" =>
        \A capture_mode \in HeaderModes :
            recognize(capture_mode, <<>>, Probe(0), "none") =>
                /\ capture_command' = [capture_command EXCEPT !.result = Some(response'.body),
                                                              !.result_timestamp = now,
                                                              !.pending = FALSE]
                /\ capture_mode \notin {"register", "logout"} =>
                        /\ recognize("attendance", <<>>, Probe(0), "none")
                        /\ "log_type" \in DOMAIN response'.body => response'.body.log_type = "IN"
                /\ capture_mode = "logout" =>
                        ("log_type" \in DOMAIN response'.body => response'.body.log_type = "OUT")
                /\ capture_mode = "register" => "log_type" \notin DOMAIN response'.body]_vars

\* C35 witness: the stored command is a logout command that a poll has timed out; a
\* capture submitted after that was logged IN and its result has replaced the timeout
C35_Witness ==
    /\ capture_command.mode = Some("logout")
    /\ ~capture_command.pending
    /\ capture_command.result_timestamp - capture_command.timestamp >= COMMAND_TTL
    /\ response.op = "recognize"
    /\ response.body.status = "success"
    /\ response.body.log_type = "IN"
    /\ capture_command.result = Some(response.body)

----------------------------------------------------------------------------
(* Metadata: register commands for the student "a", with and without guardian
   fields, and registration captures whose header names "a", another student or
   nobody; the server at UTC, email disabled *)

InitMetadata == Init /\ tz_offset = 0 /\ ~email_enabled

NextMetadata ==
    \/ Tick(COMMAND_TTL)
    \/ \E meta \in RawMeta : request_capture("register", <<"a">>, meta)
    \/ request_capture("attendance", <<>>, GuardianMeta)
    \/ poll_command
    \/ clear_command
    \/ \E header \in HeaderNames : recognize("register", header, Probe(0), "none")

SpecMetadata == InitMetadata /\ [][NextMetadata]_vars

\* C36: a registration capture that registers N while the slot does not hold a
\* register command for N writes no year level, guardian name or guardian email
\* under N that N's row did not have before.
C36_MetadataBelongsToName ==
    [][(/\ response'.op = "recognize"
        /\ response'.body.status = "registered"
        /\ capture_command.student_name # Some(response'.body.name))
        => \A after \in students' :
                after.name = response'.body.name =>
                    /\ Truthy(after.year_level) =>
                            \E before \in students :
                                before.name = after.name /\ before.year_level = after.year_level
                    /\ Truthy(after.guardian_name) =>
                            \E before \in students :
                                before.name = after.name /\ before.guardian_name = after.guardian_name
                    /\ Truthy(after.guardian_email) =>
                            \E before \in students :
                                before.name = after.name /\ before.guardian_email = after.guardian_email]_vars

\* C37: a registration request that is not answered 200 leaves the files of the
\* gallery, the gallery in memory and the students table as they were, and one that
\* is answered 200 for N leaves a file of N in the gallery and a row of N.
C37_RegistrationAllOrNothing ==
    [][(/\ response'.op \in {"recognize", "register_student", "web_register"}
        /\ now' = now)
        => IF response'.code = 200
           THEN /\ \E f \in known_faces_dir' :
                        f.filename = replace(response'.body.name, " ", "_")
                /\ \E r \in students' : r.name = response'.body.name
           ELSE UNCHANGED <<known_faces_dir, known_faces, students>>]_vars

\* C38: the label the gallery gives to the file saved for a registered name N is N,
\* and a recognition that succeeds under a label whose file belongs to a student
\* with a row finds a row under that label.
C38_LabelsRoundTrip ==
    /\ [][(/\ response'.op \in {"recognize", "register_student", "web_register"}
           /\ now' = now
           /\ response'.code = 200
           /\ response'.body.status \in {"registered", "success"}
           /\ "log_type" \notin DOMAIN response'.body)
            => \A f \in known_faces_dir' :
                    f.filename = replace(response'.body.name, " ", "_")
                        => replace(f.filename, "_", " ") = response'.body.name]_vars
    /\ [][(/\ AttendanceStep
           /\ response'.body.status = "success"
           /\ \E r \in students :
                replace(r.name, " ", "_") = replace(response'.body.name, " ", "_"))
            => get_student(students, response'.body.name) # None]_vars

\* C39: for every offset of the server from UTC, a recognition of a student is
\* answered duplicate exactly when a record of the same student and log type was
\* written less than five minutes before it.
C39_RecentIffYoungerThanFiveMinutes ==
    [][(AttendanceStep /\ response'.body.status \in {"success", "duplicate"}) =>
        ((response'.body.status = "duplicate")
            <=> \E i \in RecordsOf(attendance_logs, response'.body.name, response'.body.log_type) :
                    now - (attendance_logs[i].timestamp - tz_offset)
                        < DUPLICATE_THRESHOLD_MINUTES * 60)]_vars

====
